---- MODULE Spec2Model ----
(***************************************************************************)
(* The in-memory fallback store of src/backend/database.py: the two        *)
(* MockCollection objects (activities, teachers), their operations, and    *)
(* init_database; and the startup code of the module, which binds the two  *)
(* collection handles to MongoDB or to the fallback store.                 *)
(*                                                                         *)
(* Python values are tagged records [t |-> type, v |-> payload], so that   *)
(* values of different Python types compare unequal, as they do in Python: *)
(*   None  [t |-> "none", v |-> 0]      int   [t |-> "int",  v |-> n]      *)
(*   str   [t |-> "str",  v |-> s]      list  [t |-> "list", v |-> <<..>>] *)
(*   dict  [t |-> "dict", v |-> f]   (f a function from key to value)      *)
(* The elements of a list are strings (participants, days).  A document is *)
(* a function from field name to value; a collection (a Python dict, which *)
(* keeps insertion order) is a sequence of entries [k |-> key, d |-> doc]  *)
(* with pairwise different keys.  Every document handed to insert_one is a *)
(* dict object of its own, as the ones init_database builds are.           *)
(***************************************************************************)
EXTENDS Integers, Sequences, FiniteSets, TLC

VARIABLES data, last, pc, raised, activities_collection, teachers_collection,
          use_memory_fallback

vars == <<data, last, pc, raised, activities_collection, teachers_collection,
          use_memory_fallback>>

\* what the module's startup code binds: the statement it is at (pc),
\* whether a statement of the try block raised, the two collection handles
\* and the flag _use_memory_fallback
startup == <<pc, raised, activities_collection, teachers_collection, use_memory_fallback>>

(* ------------------------------ bounds -------------------------------- *)

\* largest number of documents a collection is grown to
MaxDocs == 3

\* longest list a $push is allowed to produce
MaxList == 3

(* --------------------------- Python values ---------------------------- *)

NoneV == [t |-> "none", v |-> 0]
IntV(n) == [t |-> "int", v |-> n]
StrV(s) == [t |-> "str", v |-> s]
ListV(l) == [t |-> "list", v |-> l]
DictV(f) == [t |-> "dict", v |-> f]

EmptyDict == [x \in {} |-> NoneV]

\* d.get(key): the value, or None when the key is absent
Get(d, key) == IF key \in DOMAIN d THEN d[key] ELSE NoneV

\* d.get(key, default)
GetOr(d, key, default) == IF key \in DOMAIN d THEN d[key] ELSE default

\* value in list
InList(x, l) == \E i \in 1..Len(l) : l[i] = x

\* the code points of the strings the store compares with < and > or sorts
CodePoints ==
  ("" :> <<>>) @@
  ("Monday" :> <<77, 111, 110, 100, 97, 121>>) @@
  ("Tuesday" :> <<84, 117, 101, 115, 100, 97, 121>>) @@
  ("Wednesday" :> <<87, 101, 100, 110, 101, 115, 100, 97, 121>>) @@
  ("Thursday" :> <<84, 104, 117, 114, 115, 100, 97, 121>>) @@
  ("Friday" :> <<70, 114, 105, 100, 97, 121>>) @@
  ("Saturday" :> <<83, 97, 116, 117, 114, 100, 97, 121>>) @@
  ("Sunday" :> <<83, 117, 110, 100, 97, 121>>) @@
  ("07:00" :> <<48, 55, 58, 48, 48>>) @@
  ("08:00" :> <<48, 56, 58, 48, 48>>) @@
  ("09:00" :> <<48, 57, 58, 48, 48>>) @@
  ("15:15" :> <<49, 53, 58, 49, 53>>) @@
  ("16:45" :> <<49, 54, 58, 52, 53>>) @@
  ("19:00" :> <<49, 57, 58, 48, 48>>) @@
  ("20:00" :> <<50, 48, 58, 48, 48>>)

\* Python's str <: lexicographic on code points, a proper prefix is smaller
RECURSIVE SeqLess(_, _)
SeqLess(a, b) ==
  IF b = <<>> THEN FALSE
  ELSE IF a = <<>> THEN TRUE
  ELSE IF a[1] # b[1] THEN a[1] < b[1]
  ELSE SeqLess(Tail(a), Tail(b))

StrLess(a, b) == SeqLess(CodePoints[a], CodePoints[b])

(* --------------------------- MockCollection --------------------------- *)

Collections == {"activities", "teachers"}

\* the position of key in the mapping, 0 when it is not a key
KeyIndex(coll, key) ==
  IF \E i \in 1..Len(coll) : coll[i].k = key
  THEN CHOOSE i \in 1..Len(coll) : coll[i].k = key
  ELSE 0

\* {'_id': doc_id, **doc}: the fields of doc win over the attached key
WithId(doc_id, doc) ==
  [f \in (DOMAIN doc) \cup {"_id"} |-> IF f \in DOMAIN doc THEN doc[f] ELSE doc_id]

count_documents(coll, filter_dict) == Len(coll)

\* a list or a dict is unhashable and cannot be a key of self.data
Hashable(x) == x.t \notin {"list", "dict"}

\* setdefault instead of assignment: an existing key keeps its document
SetItemKeepOld(coll, key, doc) ==
  IF KeyIndex(coll, key) = 0
  THEN Append(coll, [k |-> key, d |-> doc])
  ELSE coll

\* a list of (key, document) pairs in place of the dict: every insert adds
\* an entry
SetItemAppend(coll, key, doc) == Append(coll, [k |-> key, d |-> doc])

\* del self.data[key] before the assignment: an existing key moves to the end
SetItemMoveToEnd(coll, key, doc) ==
  Append(SelectSeq(coll, LAMBDA e : e.k # key), [k |-> key, d |-> doc])

\* self.data[doc_id] = doc: a new key goes to the end, an existing key keeps
\* its place and gets the new document
SetItem(coll, key, doc) ==
  IF KeyIndex(coll, key) = 0
  THEN Append(coll, [k |-> key, d |-> doc])
  ELSE [coll EXCEPT ![KeyIndex(coll, key)] = [k |-> key, d |-> doc]]

insert_one(coll, doc) ==
  LET doc_id == GetOr(doc, "_id", IntV(Len(coll)))
  IN IF Hashable(doc_id)
     THEN [data |-> SetItem(coll, doc_id, doc), ret |-> doc_id, exc |-> "none"]
     ELSE [data |-> coll, ret |-> NoneV, exc |-> "TypeError"]

\* "op in value" for a match specification: membership of a key for a dict, of an
\* element for a list, TypeError for None and int; for a str it is a substring
\* test, and no string of this model contains an operator name
HasOp(value, op) ==
  CASE value.t = "dict" -> IF op \in DOMAIN value.v THEN "yes" ELSE "no"
    [] value.t = "list" -> IF InList(op, value.v) THEN "raise" ELSE "no"
    [] value.t = "str" -> "no"
    [] OTHER -> "raise"

\* doc.get("schedule_details", {}).get(name, default)
ScheduleDetail(doc, name, default) ==
  GetOr(GetOr(doc, "schedule_details", DictV(EmptyDict)).v, name, default)

\* all(...) in place of any(...)
EveryDayIn(days, doc_days) == \A i \in 1..Len(days) : InList(days[i], doc_days)

\* any(day in doc_days for day in days)
AnyDayIn(days, doc_days) == \E i \in 1..Len(days) : InList(days[i], doc_days)

\* one iteration of "for key, value in filter_dict.items()" in find:
\* "ok" leaves match True, "no" is match = False; break, "raise" an exception
FindKey(doc, doc_with_id, key, value) ==
  IF key = "schedule_details.days" THEN
    CASE HasOp(value, "$in") = "raise" -> "raise"
      [] HasOp(value, "$in") = "no" -> "ok"
      [] OTHER ->
         IF AnyDayIn(value.v["$in"].v, ScheduleDetail(doc, "days", ListV(<<>>)).v)
         THEN "ok" ELSE "no"
  ELSE IF key = "schedule_details.start_time" THEN
    CASE HasOp(value, "$gte") = "raise" -> "raise"
      [] HasOp(value, "$gte") = "no" -> "ok"
      [] OTHER ->
         LET doc_time == ScheduleDetail(doc, "start_time", StrV(""))
         IN IF doc_time.t # "str" \/ value.v["$gte"].t # "str" THEN "raise"
            ELSE IF StrLess(doc_time.v, value.v["$gte"].v) THEN "no" ELSE "ok"
  ELSE IF key = "schedule_details.end_time" THEN
    CASE HasOp(value, "$lte") = "raise" -> "raise"
      [] HasOp(value, "$lte") = "no" -> "ok"
      [] OTHER ->
         LET doc_time == ScheduleDetail(doc, "end_time", StrV(""))
         IN IF doc_time.t # "str" \/ value.v["$lte"].t # "str" THEN "raise"
            ELSE IF StrLess(value.v["$lte"].v, doc_time.v) THEN "no" ELSE "ok"
  ELSE IF Get(doc_with_id, key) # value THEN "no" ELSE "ok"

\* the loop over the keys of the filter for one document, from key number i on
RECURSIVE FindMatch(_, _, _, _)
FindMatch(doc, doc_with_id, filter_dict, i) ==
  IF i > Len(filter_dict) THEN "ok"
  ELSE LET r == FindKey(doc, doc_with_id, filter_dict[i].key, filter_dict[i].value)
       IN IF r = "ok" THEN FindMatch(doc, doc_with_id, filter_dict, i + 1) ELSE r

\* the loop over self.data.items() from entry i on, results collected so far
RECURSIVE FindLoop(_, _, _, _)
FindLoop(coll, filter_dict, i, results) ==
  IF i > Len(coll) THEN [ret |-> results, exc |-> "none"]
  ELSE LET doc_with_id == WithId(coll[i].k, coll[i].d)
           m == FindMatch(coll[i].d, doc_with_id, filter_dict, 1)
       IN CASE m = "raise" -> [ret |-> <<>>, exc |-> "TypeError"]
            [] m = "ok" -> FindLoop(coll, filter_dict, i + 1, Append(results, doc_with_id))
            [] OTHER -> FindLoop(coll, filter_dict, i + 1, results)

\* a filter dict: the sequence of its items in the order the dict yields them,
\* each [key |-> field path, value |-> match specification]
FilterV(items) == [t |-> "dict", v |-> items]

\* filter_dict is None (find() without argument) or a filter dict
find(coll, filter_dict) ==
  IF filter_dict.t = "none"
  THEN [ret |-> [i \in 1..Len(coll) |-> WithId(coll[i].k, coll[i].d)], exc |-> "none"]
  ELSE FindLoop(coll, filter_dict.v, 1, <<>>)

\* all(d.get(k) == v for k, v in filter_dict.items())
AllEqual(d, filter_dict) ==
  \A i \in 1..Len(filter_dict) : Get(d, filter_dict[i].key) = filter_dict[i].value

\* the scan started from the last document instead of the first
RECURSIVE FindOneLast(_, _, _)
FindOneLast(coll, filter_dict, i) ==
  IF i > Len(coll) THEN [found |-> FALSE, doc |-> EmptyDict]
  ELSE LET j == Len(coll) + 1 - i
       IN IF AllEqual(WithId(coll[j].k, coll[j].d), filter_dict)
          THEN [found |-> TRUE, doc |-> WithId(coll[j].k, coll[j].d)]
          ELSE FindOneLast(coll, filter_dict, i + 1)

RECURSIVE FindOneLoop(_, _, _)
FindOneLoop(coll, filter_dict, i) ==
  IF i > Len(coll) THEN [found |-> FALSE, doc |-> EmptyDict]
  ELSE IF AllEqual(WithId(coll[i].k, coll[i].d), filter_dict)
       THEN [found |-> TRUE, doc |-> WithId(coll[i].k, coll[i].d)]
       ELSE FindOneLoop(coll, filter_dict, i + 1)

\* found = FALSE is the return of None
find_one(coll, filter_dict) == FindOneLoop(coll, filter_dict.v, 1)

\* list.remove(value): drops the first occurrence
RECURSIVE RemoveFirst(_, _)
RemoveFirst(l, value) ==
  IF l = <<>> THEN <<>>
  ELSE IF Head(l) = value THEN Tail(l)
  ELSE <<Head(l)>> \o RemoveFirst(Tail(l), value)

\* a single l.remove(value) in place of the loop
RemoveOnce(l, value) == RemoveFirst(l, value)

\* while value in l: l.remove(value)
RECURSIVE RemoveAll(_, _)
RemoveAll(l, value) ==
  IF InList(value, l) THEN RemoveAll(RemoveFirst(l, value), value) ELSE l

\* $addToSet in place of $push: a value the list holds is not appended again
RECURSIVE PushLoopAddToSet(_, _, _)
PushLoopAddToSet(doc, items, i) ==
  IF i > Len(items) THEN [doc |-> doc, exc |-> "none"]
  ELSE LET field == items[i].field
           cur == GetOr(doc, field, ListV(<<>>))
       IN IF cur.t # "list"
          THEN [doc |-> doc, exc |-> "AttributeError"]
          ELSE PushLoopAddToSet([f \in (DOMAIN doc) \cup {field} |->
                                   IF f = field
                                   THEN IF InList(items[i].value, cur.v) THEN cur
                                        ELSE ListV(Append(cur.v, items[i].value))
                                   ELSE doc[f]],
                                items, i + 1)

\* "for field, value in update_dict['$push'].items()" from item i on: a field
\* that is absent becomes [] first; append on a value that is no list raises
\* AttributeError, and what was appended before stays
RECURSIVE PushLoop(_, _, _)
PushLoop(doc, items, i) ==
  IF i > Len(items) THEN [doc |-> doc, exc |-> "none"]
  ELSE LET field == items[i].field
           cur == GetOr(doc, field, ListV(<<>>))
       IN IF cur.t # "list"
          THEN [doc |-> doc, exc |-> "AttributeError"]
          ELSE PushLoop([f \in (DOMAIN doc) \cup {field} |->
                           IF f = field THEN ListV(Append(cur.v, items[i].value))
                           ELSE doc[f]],
                        items, i + 1)

\* "for field, value in update_dict['$pull'].items()" from item i on
RECURSIVE PullLoop(_, _, _)
PullLoop(doc, items, i) ==
  IF i > Len(items) THEN doc
  ELSE LET field == items[i].field
       IN IF field \in DOMAIN doc /\ doc[field].t = "list"
          THEN PullLoop([doc EXCEPT ![field] = ListV(RemoveAll(doc[field].v, items[i].value))],
                        items, i + 1)
          ELSE PullLoop(doc, items, i + 1)

\* the body of the if for the matched document: $push, then $pull
ApplyUpdate(doc, update_dict) ==
  LET pushed == IF "$push" \in DOMAIN update_dict
                THEN PushLoop(doc, update_dict["$push"], 1)
                ELSE [doc |-> doc, exc |-> "none"]
  IN IF pushed.exc # "none" THEN pushed
     ELSE IF "$pull" \in DOMAIN update_dict
          THEN [doc |-> PullLoop(pushed.doc, update_dict["$pull"], 1), exc |-> "none"]
          ELSE pushed

\* the last matching entry instead of the first
RECURSIVE UpdateTargetLast(_, _, _)
UpdateTargetLast(coll, filter_dict, i) ==
  IF i > Len(coll) THEN 0
  ELSE IF UpdateTargetLast(coll, filter_dict, i + 1) # 0
       THEN UpdateTargetLast(coll, filter_dict, i + 1)
       ELSE IF AllEqual(coll[i].d, filter_dict.v) THEN i ELSE 0

\* the first entry whose stored document passes the filter, 0 when there is none
RECURSIVE UpdateTarget(_, _, _)
UpdateTarget(coll, filter_dict, i) ==
  IF i > Len(coll) THEN 0
  ELSE IF AllEqual(coll[i].d, filter_dict.v) THEN i
  ELSE UpdateTarget(coll, filter_dict, i + 1)

\* an update dict is a function from "$push" / "$pull" to the items of that
\* operator's dict, each [field |-> name, value |-> string]; ret is the
\* modified_count, -1 when the call raised and returned nothing
update_one(coll, filter_dict, update_dict) ==
  LET i == UpdateTarget(coll, filter_dict, 1)
  IN IF i = 0 THEN [data |-> coll, ret |-> 0, exc |-> "none"]
     ELSE LET u == ApplyUpdate(coll[i].d, update_dict)
          IN [data |-> [coll EXCEPT ![i].d = u.doc],
              ret |-> IF u.exc = "none" THEN 1 ELSE -1,
              exc |-> u.exc]

\* sorted(all_days): the strings of a set in ascending order
RECURSIVE Sorted(_)
Sorted(S) ==
  IF S = {} THEN <<>>
  ELSE LET m == CHOOSE x \in S : \A y \in S \ {x} : StrLess(x, y)
       IN <<m>> \o Sorted(S \ {m})

\* the days of the first document only
AllDaysFirst(coll) ==
  IF coll = <<>> THEN {}
  ELSE { ScheduleDetail(coll[1].d, "days", ListV(<<>>)).v[j] :
           j \in 1..Len(ScheduleDetail(coll[1].d, "days", ListV(<<>>)).v) }

\* all_days after the loop over self.data.values()
AllDays(coll) ==
  UNION { { ScheduleDetail(coll[i].d, "days", ListV(<<>>)).v[j] :
              j \in 1..Len(ScheduleDetail(coll[i].d, "days", ListV(<<>>)).v) } :
          i \in 1..Len(coll) }

\* len(pipeline) == 2 in place of len(pipeline) >= 2
aggregate_two_stages(coll, pipeline) ==
  IF Len(pipeline) = 0 THEN <<>>
  ELSE IF Len(pipeline) = 2 /\ "$unwind" \in DOMAIN pipeline[1]
                            /\ "$group" \in DOMAIN pipeline[2]
       THEN LET days == Sorted(AllDays(coll))
            IN [i \in 1..Len(days) |-> [_id |-> days[i]]]
       ELSE <<>>

\* a pipeline is a sequence of stages, each a dict from operator to argument
aggregate(coll, pipeline) ==
  IF Len(pipeline) = 0 THEN <<>>
  ELSE IF Len(pipeline) >= 2 /\ "$unwind" \in DOMAIN pipeline[1]
                             /\ "$group" \in DOMAIN pipeline[2]
       THEN LET days == Sorted(AllDays(coll))
            IN [i \in 1..Len(days) |-> [_id |-> days[i]]]
       ELSE <<>>

(* ----------------------------- seed data ------------------------------ *)

\* initial_activities: the first and the last entry of the catalogue
initial_activities ==
  << [name |-> "Chess Club",
      details |->
        ("description" :> StrV("Learn strategies and compete in chess tournaments")) @@
        ("schedule" :> StrV("Mondays and Fridays, 3:15 PM - 4:45 PM")) @@
        ("schedule_details" :>
           DictV(("days" :> ListV(<<"Monday", "Friday">>)) @@
                 ("start_time" :> StrV("15:15")) @@
                 ("end_time" :> StrV("16:45")))) @@
        ("max_participants" :> IntV(12)) @@
        ("participants" :> ListV(<<"michael@mergington.edu", "daniel@mergington.edu">>))],
     [name |-> "Manga Maniacs",
      details |->
        ("description" :> StrV("Explore the fantastic stories of the most interesting characters from Japanese Manga (graphic novels).")) @@
        ("schedule" :> StrV("Tuesdays, 7:00 PM - 8:00 PM")) @@
        ("schedule_details" :>
           DictV(("days" :> ListV(<<"Tuesday">>)) @@
                 ("start_time" :> StrV("19:00")) @@
                 ("end_time" :> StrV("20:00")))) @@
        ("max_participants" :> IntV(15)) @@
        ("participants" :> ListV(<<>>))] >>

\* initial_teachers: the first two accounts; a password is the opaque result
\* of hash_password
initial_teachers ==
  << ("username" :> StrV("mrodriguez")) @@
     ("display_name" :> StrV("Ms. Rodriguez")) @@
     ("password" :> StrV("hash(art123)")) @@
     ("role" :> StrV("teacher")),
     ("username" :> StrV("mchen")) @@
     ("display_name" :> StrV("Mr. Chen")) @@
     ("password" :> StrV("hash(chess456)")) @@
     ("role" :> StrV("teacher")) >>

\* insert_one on each document of docs in turn, from document i on
RECURSIVE InsertEach(_, _, _)
InsertEach(coll, docs, i) ==
  IF i > Len(docs) THEN coll
  ELSE InsertEach(insert_one(coll, docs[i]).data, docs, i + 1)

\* the documents init_database builds: {"_id": name, **details} and
\* {"_id": teacher["username"], **teacher}
ActivityDocs ==
  [i \in 1..Len(initial_activities) |->
     initial_activities[i].details @@ ("_id" :> StrV(initial_activities[i].name))]

TeacherDocs ==
  [i \in 1..Len(initial_teachers) |->
     initial_teachers[i] @@ ("_id" :> initial_teachers[i]["username"])]

\* init_database without the test of the activities count
init_database_unchecked(d) ==
  [activities |-> InsertEach(d.activities, ActivityDocs, 1),
   teachers |->
     IF count_documents(d.teachers, EmptyDict) = 0
     THEN InsertEach(d.teachers, TeacherDocs, 1) ELSE d.teachers]

\* the new value of both collections
init_database(d) ==
  [activities |->
     IF count_documents(d.activities, EmptyDict) = 0
     THEN InsertEach(d.activities, ActivityDocs, 1) ELSE d.activities,
   teachers |->
     IF count_documents(d.teachers, EmptyDict) = 0
     THEN InsertEach(d.teachers, TeacherDocs, 1) ELSE d.teachers]

(* ------------------------------- inputs ------------------------------- *)

Item(key, value) == [key |-> key, value |-> value]
Op(field, value) == [field |-> field, value |-> value]
Call(filter_dict, update_dict) == [filter |-> filter_dict, update |-> update_dict]

Emma == "emma@mergington.edu"
Michael == "michael@mergington.edu"

\* a document without _id, one with an int _id, one with the _id of a seeded
\* activity
NoIdDoc == ("name" :> StrV("Drama Club")) @@ ("participants" :> ListV(<<>>))
IntIdDoc == ("_id" :> IntV(1)) @@ ("role" :> StrV("teacher"))
DupDoc == ("_id" :> StrV("Chess Club")) @@ ("max_participants" :> IntV(20))

\* the documents callers insert besides the seed
InsertDocs(c) == IF c = "activities" THEN {NoIdDoc, DupDoc} ELSE {IntIdDoc, NoIdDoc}

ById(id) == FilterV(<<Item("_id", id)>>)
Chess == ById(StrV("Chess Club"))
Manga == ById(StrV("Manga Maniacs"))
Teachers == FilterV(<<Item("role", StrV("teacher"))>>)

Push(field, value) == ("$push" :> <<Op(field, value)>>)
Pull(field, value) == ("$pull" :> <<Op(field, value)>>)

\* the update_one calls: sign-up and unregister on the participants list, and
\* updates that name an absent field, a field that is no list, or no document
UpdateCalls(c) ==
  IF c = "activities" THEN
    { Call(Chess, Push("participants", Emma)),
      Call(Chess, Pull("participants", Emma)),
      Call(Chess, Pull("participants", Michael)),
      Call(Manga, Push("participants", Emma)),
      Call(Manga, Push("participants", Michael)),
      Call(Manga, Pull("participants", Emma)),
      Call(Chess, Pull("max_participants", Emma)),
      Call(Chess, Pull("waitlist", Emma)),
      Call(Chess, Push("max_participants", Emma)),
      Call(Manga, ("$push" :> <<Op("participants", Emma), Op("schedule", Emma)>>)),
      Call(Manga, Push("participants", Emma) @@ Pull("participants", Michael)),
      Call(ById(IntV(0)), Push("participants", Emma)),
      Call(FilterV(<<>>), Push("_id", Emma)),
      Call(FilterV(<<>>), Pull("participants", Emma)),
      Call(ById(StrV("nobody")), Push("participants", Emma)) }
  ELSE
    { Call(Teachers, Push("participants", Emma)),
      Call(Teachers, Pull("participants", Emma)),
      Call(Teachers, Pull("role", Emma)) }

\* the update_one calls made between the inserts: a sign-up, an unregister,
\* an update by the fallback identifier of a document inserted without _id,
\* and a $push that names _id
StartupUpdateCalls(c) ==
  IF c = "activities" THEN
    { Call(Chess, Push("participants", Emma)),
      Call(Chess, Pull("participants", Michael)),
      Call(ById(IntV(0)), Push("participants", Emma)),
      Call(FilterV(<<>>), Push("_id", Emma)) }
  ELSE
    { Call(Teachers, Push("participants", Emma)) }

\* the find_one calls
FindOneFilters(c) ==
  IF c = "activities"
  THEN {Chess, Manga, ById(IntV(0)), ById(IntV(1)), ById(StrV("nobody"))}
  ELSE {ById(StrV("mchen")), ById(IntV(1)), Teachers}

(* ---------------------------- state machine --------------------------- *)

\* last is the latest call: its arguments, what it returned (ret) or raised
\* (exc), and for a call that writes the store as it was before the call
NoCall == [op |-> "none"]

NoData == [activities |-> <<>>, teachers |-> <<>>]

\* the bindings after a startup that found no server and fell back to the
\* in-memory store
FallbackSelected ==
  /\ pc = "done"
  /\ raised = TRUE
  /\ activities_collection = "MockCollection"
  /\ teachers_collection = "MockCollection"
  /\ use_memory_fallback = TRUE

\* the module-level dicts _in_memory_activities and _in_memory_teachers
Init ==
  /\ data = NoData
  /\ last = NoCall
  /\ FallbackSelected

InitDatabase ==
  /\ data' = init_database(data)
  /\ last' = [op |-> "init_database", before |-> data]
  /\ UNCHANGED startup

\* every list of the document is at most MaxList long
ListsWithin(doc) == \A f \in DOMAIN doc : doc[f].t = "list" => Len(doc[f].v) <= MaxList

InsertOne(c, doc) ==
  LET r == insert_one(data[c], doc)
  IN /\ Len(r.data) <= MaxDocs
     /\ data' = [data EXCEPT ![c] = r.data]
     /\ last' = [op |-> "insert_one", c |-> c, doc |-> doc, ret |-> r.ret, exc |-> r.exc,
                 before |-> data]
     /\ UNCHANGED startup

UpdateOne(c, filter_dict, update_dict) ==
  LET r == update_one(data[c], filter_dict, update_dict)
  IN /\ \A i \in 1..Len(r.data) : ListsWithin(r.data[i].d)
     /\ data' = [data EXCEPT ![c] = r.data]
     /\ last' = [op |-> "update_one", c |-> c, filter |-> filter_dict,
                 update |-> update_dict, ret |-> r.ret, exc |-> r.exc, before |-> data]
     /\ UNCHANGED startup

FindOne(c, filter_dict) ==
  /\ last' = [op |-> "find_one", c |-> c, filter |-> filter_dict,
              ret |-> find_one(data[c], filter_dict)]
  /\ UNCHANGED <<data, startup>>

CountDocuments(c) ==
  /\ last' = [op |-> "count_documents", c |-> c,
              ret |-> count_documents(data[c], EmptyDict)]
  /\ UNCHANGED <<data, startup>>

Next ==
  \/ InitDatabase
  \/ \E c \in Collections : \E doc \in InsertDocs(c) : InsertOne(c, doc)
  \/ \E c \in Collections : \E u \in StartupUpdateCalls(c) : UpdateOne(c, u.filter, u.update)
  \/ \E c \in Collections : \E f \in FindOneFilters(c) : FindOne(c, f)
  \/ \E c \in Collections : CountDocuments(c)

Spec == Init /\ [][Next]_vars

(* ------------------- updates on a populated store --------------------- *)

\* the store after init_database at startup
InitPopulated ==
  /\ data = init_database(NoData)
  /\ last = NoCall
  /\ FallbackSelected

NextUpdate ==
  \E c \in Collections : \E u \in UpdateCalls(c) : UpdateOne(c, u.filter, u.update)

SpecUpdate == InitPopulated /\ [][NextUpdate]_vars

(* ----------------------- queries on a filled store -------------------- *)

\* documents of the activities collection that differ in what the filters
\* read: a third catalogue entry, a document without schedule_details, and one
\* whose schedule_details has no days and no end_time
ProgrammingDoc ==
  ("_id" :> StrV("Programming Class")) @@
  ("schedule_details" :>
     DictV(("days" :> ListV(<<"Tuesday", "Thursday">>)) @@
           ("start_time" :> StrV("07:00")) @@
           ("end_time" :> StrV("08:00")))) @@
  ("max_participants" :> IntV(20)) @@
  ("participants" :> ListV(<<Emma>>))

OpenGymDoc ==
  ("_id" :> StrV("Open Gym")) @@
  ("schedule_details" :>
     DictV(("days" :> ListV(<<>>)) @@ ("start_time" :> StrV("09:00")))) @@
  ("participants" :> ListV(<<>>))

QueryDocs == {ActivityDocs[1], ActivityDocs[2], ProgrammingDoc, OpenGymDoc, NoIdDoc}

\* the sequences of at most MaxDocs different documents
QuerySeqs ==
  { s \in UNION { [1..n -> QueryDocs] : n \in 0..MaxDocs } :
      \A i \in 1..Len(s) : \A j \in 1..Len(s) : s[i] = s[j] => i = j }

DaysIn(days) == Item("schedule_details.days", DictV("$in" :> ListV(days)))
StartGte(bound) == Item("schedule_details.start_time", DictV("$gte" :> StrV(bound)))
EndLte(bound) == Item("schedule_details.end_time", DictV("$lte" :> StrV(bound)))

\* the find calls: no filter, the empty filter, equality, each operator, a
\* filter of several keys, and two match specifications without the operator
FindFilters ==
  { NoneV,
    FilterV(<<>>),
    Chess,
    FilterV(<<Item("participants", ListV(<<>>))>>),
    FilterV(<<DaysIn(<<"Friday">>)>>),
    FilterV(<<DaysIn(<<"Tuesday", "Friday">>)>>),
    FilterV(<<DaysIn(<<>>)>>),
    FilterV(<<StartGte("08:00")>>),
    FilterV(<<StartGte("15:15")>>),
    FilterV(<<EndLte("08:00")>>),
    FilterV(<<EndLte("16:45")>>),
    FilterV(<<DaysIn(<<"Tuesday", "Friday">>), StartGte("08:00"), EndLte("16:45")>>),
    FilterV(<<Item("max_participants", IntV(15)), DaysIn(<<"Tuesday">>)>>),
    FilterV(<<Item("schedule_details.days", DictV(EmptyDict))>>),
    FilterV(<<Item("schedule_details.start_time", DictV("$lte" :> StrV("08:00")))>>) }

Unwind(path) == ("$unwind" :> StrV(path))
Group(path) == ("$group" :> DictV("_id" :> StrV(path)))
SortById == ("$sort" :> DictV("_id" :> IntV(1)))

\* the aggregate calls
Pipelines ==
  { <<>>,
    <<Unwind("$schedule_details.days")>>,
    <<Unwind("$schedule_details.days"), Group("$schedule_details.days")>>,
    <<Unwind("$schedule_details.days"), Group("$schedule_details.days"), SortById>>,
    <<Group("$schedule_details.days"), Unwind("$schedule_details.days")>>,
    <<Unwind("$participants"), Group("$participants")>> }

\* activities filled by insert_one calls, teachers seeded
InitFilled ==
  /\ \E s \in QuerySeqs :
       data = [activities |-> InsertEach(<<>>, s, 1),
               teachers |-> InsertEach(<<>>, TeacherDocs, 1)]
  /\ last = NoCall
  /\ FallbackSelected

Find(c, filter_dict) ==
  /\ last' = [op |-> "find", c |-> c, filter |-> filter_dict,
              ret |-> find(data[c], filter_dict).ret,
              exc |-> find(data[c], filter_dict).exc]
  /\ UNCHANGED <<data, startup>>

Aggregate(c, pipeline) ==
  /\ last' = [op |-> "aggregate", c |-> c, pipeline |-> pipeline,
              ret |-> aggregate(data[c], pipeline)]
  /\ UNCHANGED <<data, startup>>

NextQuery ==
  \/ \E c \in Collections, f \in FindFilters : Find(c, f)
  \/ \E c \in Collections, p \in Pipelines : Aggregate(c, p)

SpecQuery == InitFilled /\ [][NextQuery]_vars

(* ------------------------------ startup ------------------------------ *)

\* the statements of the try block, in order, and the statement after each;
\* "except" is the except block, "done" the end of the startup code
TryBlock == <<"MongoClient", "ping", "db", "activities", "teachers", "info">>

After(stmt) ==
  IF stmt = "info" THEN "done"
  ELSE TryBlock[1 + CHOOSE n \in 1..Len(TryBlock) : TryBlock[n] = stmt]

\* the module is being imported: nothing is bound yet, the flag is False
InitStartup ==
  /\ data = NoData
  /\ last = NoCall
  /\ pc = "MongoClient"
  /\ raised = FALSE
  /\ activities_collection = "unbound"
  /\ teachers_collection = "unbound"
  /\ use_memory_fallback = FALSE

\* a statement of the try block that binds no handle completes: the client
\* is made, the ping is answered, the database is selected, the success is
\* logged
Proceed(stmt) ==
  /\ pc = stmt
  /\ stmt \in {"MongoClient", "ping", "db", "info"}
  /\ pc' = After(stmt)
  /\ UNCHANGED <<data, last, raised, activities_collection, teachers_collection,
                 use_memory_fallback>>

\* activities_collection = db['activities']
BindActivities ==
  /\ pc = "activities"
  /\ activities_collection' = "Collection"
  /\ pc' = After("activities")
  /\ UNCHANGED <<data, last, raised, teachers_collection, use_memory_fallback>>

\* teachers_collection = db['teachers']
BindTeachers ==
  /\ pc = "teachers"
  /\ teachers_collection' = "Collection"
  /\ pc' = After("teachers")
  /\ UNCHANGED <<data, last, raised, activities_collection, use_memory_fallback>>

\* a statement of the try block raises an Exception: control goes to the
\* except block, what was bound so far stays bound
Raise(stmt) ==
  /\ pc = stmt
  /\ raised' = TRUE
  /\ pc' = "except"
  /\ UNCHANGED <<data, last, activities_collection, teachers_collection,
                 use_memory_fallback>>

\* the except block up to the class statement: the warning and the flag
SetFallback ==
  /\ pc = "except"
  /\ use_memory_fallback' = TRUE
  /\ pc' = "mock_activities"
  /\ UNCHANGED <<data, last, raised, activities_collection, teachers_collection>>

\* the except block without the rebinding of activities_collection
SkipMockActivities ==
  /\ pc = "mock_activities"
  /\ pc' = "mock_teachers"
  /\ UNCHANGED <<data, last, raised, activities_collection, teachers_collection,
                 use_memory_fallback>>

\* activities_collection = MockCollection('activities')
BindMockActivities ==
  /\ pc = "mock_activities"
  /\ activities_collection' = "MockCollection"
  /\ pc' = "mock_teachers"
  /\ UNCHANGED <<data, last, raised, teachers_collection, use_memory_fallback>>

\* teachers_collection = MockCollection('teachers')
BindMockTeachers ==
  /\ pc = "mock_teachers"
  /\ teachers_collection' = "MockCollection"
  /\ pc' = "done"
  /\ UNCHANGED <<data, last, raised, activities_collection, use_memory_fallback>>

\* both handles are MockCollection objects: the calls on them are the
\* operations of the in-memory store
EmulatorBacked ==
  /\ pc = "done"
  /\ activities_collection = "MockCollection"
  /\ teachers_collection = "MockCollection"

\* the startup code, then the calls on the handles it bound; the calls on
\* pymongo handles go to the server and touch nothing of this module
NextStartup ==
  \/ \E n \in 1..Len(TryBlock) : Proceed(TryBlock[n])
  \/ BindActivities
  \/ BindTeachers
  \/ \E n \in 1..Len(TryBlock) : Raise(TryBlock[n])
  \/ SetFallback
  \/ BindMockActivities
  \/ BindMockTeachers
  \/ (EmulatorBacked /\ Next)

SpecStartup == InitStartup /\ [][NextStartup]_vars

(* ------------------------------- claims ------------------------------- *)

\* the list held by a field of a document, <<>> when the field holds no list
ListOf(doc, field) == IF Get(doc, field).t = "list" THEN Get(doc, field).v ELSE <<>>

\* the seed of a collection as the mapping holds it: one entry per seed
\* document, under the document's _id, in the order of the seed data
SeedOf(c) ==
  LET docs == IF c = "activities" THEN ActivityDocs ELSE TeacherDocs
  IN [i \in 1..Len(docs) |-> [k |-> docs[i]["_id"], d |-> docs[i]]]

\* C1: init_database seeds a collection if and only if it is empty, each
\* collection on its own: a collection that held documents keeps them and
\* their order, an empty one holds exactly the seed afterwards, and a second
\* init_database right after changes nothing.
C1_IdempotentSeeding ==
  last.op = "init_database" =>
    /\ \A c \in Collections :
         data[c] = IF last.before[c] = <<>> THEN SeedOf(c) ELSE last.before[c]
    /\ init_database(data) = data

\* init_database ran on activities that a sign-up had changed, and seeded the
\* empty teachers collection in the same call
C1_Witness ==
  /\ last.op = "init_database"
  /\ last.before.activities # <<>>
  /\ last.before.activities # SeedOf("activities")
  /\ last.before.activities[1].k = StrV("Chess Club")
  /\ InList(Emma, ListOf(last.before.activities[1].d, "participants"))
  /\ last.before.teachers = <<>>
  /\ data.teachers = SeedOf("teachers")

\* C2: identifier roundtrip.  After insert_one(d) returned inserted_id = id,
\* find_one({"_id": id}) on the collection as the insert left it finds a
\* document, and that document has exactly the fields of d, with _id = id.
C2_IdentifierRoundtrip ==
  (last.op = "insert_one" /\ last.exc = "none") =>
    LET r == find_one(data[last.c], ById(last.ret))
    IN /\ r.found
       /\ r.doc = [f \in (DOMAIN last.doc) \cup {"_id"} |->
                     IF f = "_id" THEN last.ret ELSE last.doc[f]]

\* a document without _id was inserted into a collection that held documents
\* and got the fallback identifier, the count before the insert
C2_Witness ==
  /\ last.op = "insert_one"
  /\ last.exc = "none"
  /\ "_id" \notin DOMAIN last.doc
  /\ Len(last.before[last.c]) >= 1
  /\ last.ret = IntV(Len(last.before[last.c]))

\* the collection the latest call worked on, before and after the call
Pre == last.before[last.c]
Post == data[last.c]

\* a stored document passes an equality filter: each key of the filter names
\* a field of the document whose value equals the filter's (an absent field
\* counts as None)
Selects(doc, filter_dict) ==
  \A n \in 1..Len(filter_dict.v) : Get(doc, filter_dict.v[n].key) = filter_dict.v[n].value

\* the first document in insertion order that passes the filter, 0 for none
FirstMatch(coll, filter_dict) ==
  IF \E i \in 1..Len(coll) : Selects(coll[i].d, filter_dict)
  THEN CHOOSE i \in 1..Len(coll) :
         /\ Selects(coll[i].d, filter_dict)
         /\ \A j \in 1..(i - 1) : ~Selects(coll[j].d, filter_dict)
  ELSE 0

\* n times update_one(filter, {"$push": {field: v}}), one call after the other
RECURSIVE PushTimes(_, _, _, _, _)
PushTimes(coll, filter_dict, field, v, n) ==
  IF n = 0 THEN coll
  ELSE PushTimes(update_one(coll, filter_dict, Push(field, v)).data, filter_dict, field, v, n - 1)

\* how many times v is pushed before it is pulled again
MaxPushes == 2

\* C3: push/pull inverse.  An update_one whose update is a $pull of v leaves
\* in the named list of the matched document exactly the elements other than
\* v, in their order; and for a document whose participants list holds no v,
\* pushing v one or more times and then pulling v gives back the collection as
\* it was.
C3_PushPullInverse ==
  /\ (last.op = "update_one" /\ DOMAIN last.update = {"$pull"}
        /\ FirstMatch(Pre, last.filter) # 0) =>
       LET i == FirstMatch(Pre, last.filter)
       IN \A n \in 1..Len(last.update["$pull"]) :
            LET field == last.update["$pull"][n].field
                v == last.update["$pull"][n].value
            IN Get(Pre[i].d, field).t = "list" =>
                 /\ last.exc = "none"
                 /\ Post[i].d[field] =
                      ListV(SelectSeq(Pre[i].d[field].v, LAMBDA x : x # v))
  /\ \A c \in Collections : \A i \in 1..Len(data[c]) : \A v \in {Emma, Michael} :
       (Get(data[c][i].d, "participants").t = "list"
          /\ ~InList(v, data[c][i].d["participants"].v)
          /\ FirstMatch(data[c], ById(data[c][i].k)) = i) =>
         \A n \in 1..MaxPushes :
           update_one(PushTimes(data[c], ById(data[c][i].k), "participants", v, n),
                      ById(data[c][i].k), Pull("participants", v)).data = data[c]

\* a $pull of Emma on a participants list that held her twice, another
\* participant in between, left that participant alone
C3_Witness ==
  /\ last.op = "update_one"
  /\ last.update = Pull("participants", Emma)
  /\ last.ret = 1
  /\ \E i \in 1..Len(Pre) :
       /\ ListOf(Pre[i].d, "participants") = <<Emma, Michael, Emma>>
       /\ ListOf(Post[i].d, "participants") = <<Michael>>

\* C4: update_one returns modified_count 1 exactly when some document passes
\* the equality filter, whether or not the update changed anything, and 0
\* exactly when none does, the store then being unchanged.
C4_ModifiedCount ==
  last.op = "update_one" =>
    /\ (FirstMatch(Pre, last.filter) # 0) <=> (last.exc = "none" /\ last.ret = 1)
    /\ (FirstMatch(Pre, last.filter) = 0) <=> (last.exc = "none" /\ last.ret = 0)
    /\ (FirstMatch(Pre, last.filter) = 0) => data = last.before

\* the fields named under $push and $pull of an update dict
Named(update_dict) ==
  UNION { { update_dict[o][n].field : n \in 1..Len(update_dict[o]) } :
          o \in DOMAIN update_dict }

\* the other collection
Other(c) == CHOOSE o \in Collections : o # c

\* C5: update_one changes at most one document.  The identifiers and their
\* order stay, the other collection stays, every document but the first one
\* that passes the filter stays, and in that one every field not named under
\* $push or $pull stays and no field that is not named appears.
C5_FirstMatchOnly ==
  last.op = "update_one" =>
    /\ data[Other(last.c)] = last.before[Other(last.c)]
    /\ Len(Post) = Len(Pre)
    /\ \A i \in 1..Len(Pre) :
         /\ Post[i].k = Pre[i].k
         /\ i # FirstMatch(Pre, last.filter) => Post[i].d = Pre[i].d
         /\ \A f \in (DOMAIN Pre[i].d) \ Named(last.update) :
              f \in DOMAIN Post[i].d /\ Post[i].d[f] = Pre[i].d[f]
         /\ (DOMAIN Post[i].d) \subseteq (DOMAIN Pre[i].d) \cup Named(last.update)

\* two teachers passed the filter, the first got the participant and the
\* second did not
C5_Witness ==
  /\ last.op = "update_one"
  /\ last.c = "teachers"
  /\ last.filter = Teachers
  /\ Selects(Pre[1].d, last.filter)
  /\ Selects(Pre[2].d, last.filter)
  /\ Post[1].d # Pre[1].d
  /\ Post[2].d = Pre[2].d


\* the documents of a collection in insertion order, each with its
\* identifier attached as _id
Documents(coll) ==
  [i \in 1..Len(coll) |->
     [f \in (DOMAIN coll[i].d) \cup {"_id"} |->
        IF f = "_id" THEN coll[i].k ELSE coll[i].d[f]]]

\* a document has the named entry in its schedule_details
HasDetail(doc, name) ==
  /\ "schedule_details" \in DOMAIN doc
  /\ name \in DOMAIN doc["schedule_details"].v

\* the days of a document, as a set
DaysOf(doc) ==
  IF HasDetail(doc, "days")
  THEN { doc["schedule_details"].v["days"].v[j] :
           j \in 1..Len(doc["schedule_details"].v["days"].v) }
  ELSE {}

\* the minute of the day a zero-padded "HH:MM" string names
Minutes(s) ==
  LET cp == CodePoints[s]
  IN ((cp[1] - 48) * 10 + (cp[2] - 48)) * 60 + (cp[4] - 48) * 10 + (cp[5] - 48)

\* a document satisfies one key of a filter
KeyHolds(doc, key, value) ==
  IF key = "schedule_details.days"
  THEN \E j \in 1..Len(value.v["$in"].v) : value.v["$in"].v[j] \in DaysOf(doc)
  ELSE IF key = "schedule_details.start_time"
  THEN /\ HasDetail(doc, "start_time")
       /\ Minutes(doc["schedule_details"].v["start_time"].v) >= Minutes(value.v["$gte"].v)
  ELSE IF key = "schedule_details.end_time"
  THEN /\ HasDetail(doc, "end_time")
       /\ Minutes(doc["schedule_details"].v["end_time"].v) <= Minutes(value.v["$lte"].v)
  ELSE Get(doc, key) = value

\* each nested key of the filter carries its operator
WellFormed(filter_dict) ==
  \A n \in 1..Len(filter_dict.v) :
    LET key == filter_dict.v[n].key
        value == filter_dict.v[n].value
    IN /\ key = "schedule_details.days" => (value.t = "dict" /\ "$in" \in DOMAIN value.v)
       /\ key = "schedule_details.start_time" => (value.t = "dict" /\ "$gte" \in DOMAIN value.v)
       /\ key = "schedule_details.end_time" => (value.t = "dict" /\ "$lte" \in DOMAIN value.v)

\* C6: find(filter) returns exactly the documents that satisfy every key of
\* the filter, each with _id attached, in insertion order; find() and find({})
\* return all documents in insertion order.
C6_FindAllKeys ==
  (last.op = "find" /\ (last.filter.t = "none" \/ WellFormed(last.filter))) =>
    /\ last.exc = "none"
    /\ last.ret =
         SelectSeq(Documents(data[last.c]),
                   LAMBDA d : last.filter.t = "none" \/
                     \A n \in 1..Len(last.filter.v) :
                       KeyHolds(d, last.filter.v[n].key, last.filter.v[n].value))

\* C7: the day-membership filter returns a document if and only if one of
\* the days asked for is among the document's days.
C7_DayMembership ==
  (last.op = "find" /\ last.filter.t = "dict" /\ Len(last.filter.v) = 1
     /\ last.filter.v[1].key = "schedule_details.days"
     /\ WellFormed(last.filter)) =>
    LET D == last.filter.v[1].value.v["$in"].v
    IN last.ret =
         SelectSeq(Documents(data[last.c]),
                   LAMBDA d : {D[j] : j \in 1..Len(D)} \cap DaysOf(d) # {})

\* Tuesday or Friday was asked for: Chess Club (Monday, Friday) is returned
\* though it has no Tuesday, Open Gym (no days) is not
C7_Witness ==
  /\ last.op = "find"
  /\ last.filter = FilterV(<<DaysIn(<<"Tuesday", "Friday">>)>>)
  /\ \E i \in 1..Len(last.ret) : last.ret[i]["_id"] = StrV("Chess Club")
  /\ \E i \in 1..Len(data[last.c]) : data[last.c][i].k = StrV("Open Gym")
  /\ \A i \in 1..Len(last.ret) : last.ret[i]["_id"] # StrV("Open Gym")

\* C8: the time-window filters return exactly the documents whose start_time
\* is at or after the $gte bound, and exactly those whose end_time is at or
\* before the $lte bound, as times of the day.
C8_TimeWindow ==
  (last.op = "find" /\ last.filter.t = "dict" /\ Len(last.filter.v) = 1
     /\ WellFormed(last.filter)) =>
    /\ last.filter.v[1].key = "schedule_details.start_time" =>
         last.ret =
           SelectSeq(Documents(data[last.c]),
                     LAMBDA d : /\ HasDetail(d, "start_time")
                                /\ Minutes(d["schedule_details"].v["start_time"].v)
                                     >= Minutes(last.filter.v[1].value.v["$gte"].v))
    /\ last.filter.v[1].key = "schedule_details.end_time" =>
         last.ret =
           SelectSeq(Documents(data[last.c]),
                     LAMBDA d : /\ HasDetail(d, "end_time")
                                /\ Minutes(d["schedule_details"].v["end_time"].v)
                                     <= Minutes(last.filter.v[1].value.v["$lte"].v))

\* the days that occur in some document of the collection
UnionDays(coll) == UNION { DaysOf(coll[i].d) : i \in 1..Len(coll) }

DaysPipeline == <<Unwind("$schedule_details.days"), Group("$schedule_details.days")>>

\* C9: for the unwind+group pipeline aggregate returns one row {"_id": day}
\* for each day that occurs in some document, none twice and none missing,
\* in ascending order of the day names as strings.
C9_DistinctDays ==
  (last.op = "aggregate" /\ last.pipeline = DaysPipeline) =>
    /\ { last.ret[i]._id : i \in 1..Len(last.ret) } = UnionDays(data[last.c])
    /\ Len(last.ret) = Cardinality(UnionDays(data[last.c]))
    /\ \A i \in 1..Len(last.ret) : DOMAIN last.ret[i] = {"_id"}
    /\ \A i \in 1..(Len(last.ret) - 1) : StrLess(last.ret[i]._id, last.ret[i + 1]._id)

\* three activities, Tuesday in two of them: four rows, Friday first
C9_Witness ==
  /\ last.op = "aggregate"
  /\ last.pipeline = DaysPipeline
  /\ Len(data[last.c]) = 3
  /\ data[last.c][1].k = StrV("Manga Maniacs")
  /\ last.ret = << [_id |-> "Friday"], [_id |-> "Monday"],
                   [_id |-> "Thursday"], [_id |-> "Tuesday"] >>

\* the shape the code recognises
Recognised(pipeline) ==
  /\ Len(pipeline) >= 2
  /\ "$unwind" \in DOMAIN pipeline[1]
  /\ "$group" \in DOMAIN pipeline[2]

\* C10 as claimed: every pipeline other than the two-stage unwind+group on
\* schedule_details.days yields an empty result.
C10_OnlyDaysPipeline ==
  (last.op = "aggregate" /\ last.pipeline # DaysPipeline) => last.ret = <<>>

\* C10 as amended: a pipeline of at least two stages whose first stage has a
\* $unwind and whose second has a $group yields the rows of the distinct days,
\* whatever field the stages name and whatever stages follow; every other
\* pipeline yields an empty result.
C10_RecognisedShape ==
  last.op = "aggregate" =>
    IF Recognised(last.pipeline)
    THEN { last.ret[i]._id : i \in 1..Len(last.ret) } = UnionDays(data[last.c])
    ELSE last.ret = <<>>

\* a three-stage pipeline (unwind, group, sort) returned the days
C10_Witness ==
  /\ last.op = "aggregate"
  /\ Len(last.pipeline) = 3
  /\ last.ret # <<>>

\* the documents of a collection in insertion order as a reader sees them: a
\* stored document that has no _id field gets its identifier as _id
Attached(coll) ==
  [i \in 1..Len(coll) |->
     IF "_id" \in DOMAIN coll[i].d THEN coll[i].d
     ELSE [f \in (DOMAIN coll[i].d) \cup {"_id"} |->
             IF f = "_id" THEN coll[i].k ELSE coll[i].d[f]]]

\* the positions of the documents whose value under every key of the filter
\* equals the filter's (an absent field counts as None)
Matching(docs, filter_dict) ==
  { i \in 1..Len(docs) :
      \A n \in 1..Len(filter_dict.v) :
        Get(docs[i], filter_dict.v[n].key) = filter_dict.v[n].value }

\* C11: a find_one call leaves the store as it was; it returns None when no
\* document, with _id attached, equals the filter on every key (an empty
\* collection included), and otherwise the first such document in insertion
\* order, with _id attached.
C11_FindOneFirstOrNone ==
  [][last'.op = "find_one" =>
       LET docs == Attached(data[last'.c])
           hits == Matching(docs, last'.filter)
       IN /\ data' = data
          /\ last'.ret.found <=> hits # {}
          /\ hits # {} =>
               last'.ret.doc = docs[CHOOSE i \in hits : \A j \in hits : i <= j]
     ]_vars

\* two teachers passed the filter and find_one returned the first of them
C11_Witness ==
  /\ last.op = "find_one"
  /\ last.filter = Teachers
  /\ Cardinality(Matching(Attached(data[last.c]), last.filter)) >= 2
  /\ last.ret.found
  /\ last.ret.doc = Attached(data[last.c])[1]
  /\ last.ret.doc # Attached(data[last.c])[2]

\* the filter has a nested key whose match specification lacks the operator
\* the key is read with
Malformed(filter_dict) == filter_dict.t = "dict" /\ ~WellFormed(filter_dict)

\* C12: find with a nested key (schedule_details.days, .start_time,
\* .end_time) whose match specification lacks the expected operator ($in,
\* $gte, $lte) returns no document and raises nothing.
C12_MalformedNonMatching ==
  (last.op = "find" /\ Malformed(last.filter)) =>
    (last.exc = "none" /\ last.ret = <<>>)

\* once the startup code has ended, both handles are MockCollection objects
\* if a statement of the try block raised, and both are pymongo collections
\* if none did
Selected ==
  pc = "done" =>
    /\ raised =>
         /\ activities_collection = "MockCollection"
         /\ teachers_collection = "MockCollection"
    /\ ~raised =>
         /\ activities_collection = "Collection"
         /\ teachers_collection = "Collection"

\* C13: the backend is selected once, at startup.  When the startup code has
\* ended, both handles are emulator-backed if the connection attempt raised
\* and both are native if it did not, never one of each; and no step after
\* the end of the startup code runs the startup code again or rebinds a
\* handle or the flag.
C13_SelectedOnce ==
  [][Selected' /\ (pc = "done" => UNCHANGED startup)]_vars

\* the try block raised, both handles ended as MockCollection objects, and
\* an update_one was made on the store since
C13_Witness ==
  /\ pc = "done"
  /\ raised
  /\ activities_collection = "MockCollection"
  /\ teachers_collection = "MockCollection"
  /\ last.op = "update_one"

\* the identifiers a collection holds
Keys(coll) == { coll[i].k : i \in 1..Len(coll) }

\* the filter arguments count_documents is asked with
CountFilters == {EmptyDict, "role" :> StrV("teacher"), "_id" :> StrV("nobody")}

\* C14: count_documents, whatever its filter argument, is the number of
\* distinct identifiers the insert_one calls returned so far: a collection
\* starts without identifiers, an insert_one adds the identifier it returns and
\* no other, no other call adds or drops one, and no identifier is held
\* twice.  An insert_one whose identifier exists leaves the count as it was and
\* puts the new document in place of the old one.
C14_OverwriteKeepsCount ==
  /\ \A c \in Collections : \A f \in CountFilters :
       count_documents(data[c], f) = Cardinality(Keys(data[c]))
  /\ last.op = "none" => \A c \in Collections : Keys(data[c]) = {}
  /\ (last.op = "insert_one" /\ last.exc = "none") =>
       /\ Keys(Post) = Keys(Pre) \cup {last.ret}
       /\ Post[KeyIndex(Post, last.ret)].d = last.doc
       /\ data[Other(last.c)] = last.before[Other(last.c)]
       /\ last.ret \in Keys(Pre) =>
            /\ count_documents(Post, EmptyDict) = count_documents(Pre, EmptyDict)
            /\ \A i \in 1..Len(Pre) : Pre[i].k # last.ret => Post[i] = Pre[i]
  /\ last.op = "init_database" =>
       \A c \in Collections :
         Keys(data[c]) = Keys(last.before[c]) \cup
                           (IF last.before[c] = <<>> THEN Keys(SeedOf(c)) ELSE {})
  /\ last.op = "update_one" => Keys(Post) = Keys(Pre)

\* a document with the _id of the seeded Chess Club was inserted: the count
\* stayed and the seeded document is gone
C14_Witness ==
  /\ last.op = "insert_one"
  /\ last.doc = DupDoc
  /\ last.ret \in Keys(Pre)
  /\ Len(Pre) >= 2
  /\ Len(Post) = Len(Pre)
  /\ Pre[KeyIndex(Pre, last.ret)].d # DupDoc
  /\ Post[KeyIndex(Post, last.ret)].d = DupDoc

\* the _id values find() reports, in the order it returns the documents
ReportedIds(coll) ==
  [i \in 1..Len(find(coll, NoneV).ret) |-> find(coll, NoneV).ret[i]["_id"]]

\* C15: identifiers are unique and immutable.  find() returns no two
\* documents with the same _id, the _id that find() and find_one report for a
\* document is the identifier it was inserted under, and an update_one,
\* whatever fields its $push and $pull name, changes no reported _id.
C15_IdentifiersImmutable ==
  /\ \A c \in Collections :
       /\ \A i, j \in 1..Len(data[c]) :
            i # j => ReportedIds(data[c])[i] # ReportedIds(data[c])[j]
       /\ \A i \in 1..Len(data[c]) :
            /\ ReportedIds(data[c])[i] = data[c][i].k
            /\ find_one(data[c], ById(data[c][i].k)).found
            /\ find_one(data[c], ById(data[c][i].k)).doc["_id"] = data[c][i].k
  /\ last.op = "update_one" => ReportedIds(Post) = ReportedIds(Pre)

\* the field is absent from the document or holds a list
ListOrAbsent(doc, field) == field \notin DOMAIN doc \/ doc[field].t = "list"

\* C16: an update_one whose update is a $push appends to the matched
\* document: for each named field that holds a list or is absent (and so do
\* the fields named before it), the field afterwards holds the old list, empty
\* when the field was absent, followed by the value, one element longer,
\* whether or not the old list held the value.
C16_PushAppends ==
  (last.op = "update_one" /\ DOMAIN last.update = {"$push"}
     /\ FirstMatch(Pre, last.filter) # 0) =>
    LET i == FirstMatch(Pre, last.filter)
        items == last.update["$push"]
    IN \A n \in 1..Len(items) :
         (\A m \in 1..n : ListOrAbsent(Pre[i].d, items[m].field)) =>
           /\ items[n].field \in DOMAIN Post[i].d
           /\ Post[i].d[items[n].field] =
                ListV(ListOf(Pre[i].d, items[n].field) \o <<items[n].value>>)
           /\ Len(ListOf(Post[i].d, items[n].field)) =
                Len(ListOf(Pre[i].d, items[n].field)) + 1

\* Emma was pushed to a participants list that held her already and holds
\* her twice now, the second time at the end
C16_Witness ==
  /\ last.op = "update_one"
  /\ last.update = Push("participants", Emma)
  /\ FirstMatch(Pre, last.filter) # 0
  /\ LET i == FirstMatch(Pre, last.filter)
     IN /\ InList(Emma, ListOf(Pre[i].d, "participants"))
        /\ ListOf(Post[i].d, "participants") =
             ListOf(Pre[i].d, "participants") \o <<Emma>>
        /\ ListOf(Pre[i].d, "participants")[Len(ListOf(Pre[i].d, "participants"))] # Emma

\* C17: update_one never rejects an update.  Every call returns a
\* modification count and raises nothing; where a $push names a field of the
\* matched document that holds no list, that field is left as it was.
C17_NeverRejects ==
  last.op = "update_one" =>
    /\ last.exc = "none"
    /\ last.ret \in {0, 1}
    /\ \A i \in 1..Len(Pre) : \A f \in DOMAIN Pre[i].d :
         Pre[i].d[f].t # "list" => (f \in DOMAIN Post[i].d /\ Post[i].d[f] = Pre[i].d[f])

\* C18: update_one and find_one select the same document.  For an update_one
\* that raised nothing, modified_count is 1 if and only if find_one with the
\* same filter, on the collection as it was, returns a document; and then the
\* document find_one returns is the one at the position update_one worked on,
\* every other document being as it was.
C18_SameSelection ==
  (last.op = "update_one" /\ last.exc = "none") =>
    LET r == find_one(Pre, last.filter)
    IN /\ (last.ret = 1) <=> r.found
       /\ r.found =>
            \E i \in 1..Len(Pre) :
              /\ r.doc = WithId(Pre[i].k, Pre[i].d)
              /\ \A j \in 1..Len(Pre) : j # i => Post[j] = Pre[j]

\* the identifiers of a collection in the order the mapping holds them
KeySeq(coll) == [i \in 1..Len(coll) |-> coll[i].k]

\* C19: insertion order is stable.  find() returns the documents in the
\* order of their identifiers in the mapping, and that order changes only by
\* an insert_one of a new identifier, which goes to the end: an insert_one of
\* an existing identifier keeps the identifier where it was, an update_one
\* keeps the order, and init_database appends the seed to an empty collection
\* only.
C19_StableOrder ==
  /\ \A c \in Collections :
       /\ Len(find(data[c], NoneV).ret) = Len(data[c])
       /\ \A i \in 1..Len(data[c]) : \A f \in DOMAIN data[c][i].d :
            find(data[c], NoneV).ret[i][f] = data[c][i].d[f]
  /\ (last.op = "insert_one" /\ last.exc = "none") =>
       KeySeq(Post) = IF last.ret \in Keys(Pre) THEN KeySeq(Pre)
                      ELSE Append(KeySeq(Pre), last.ret)
  /\ last.op = "update_one" => KeySeq(Post) = KeySeq(Pre)
  /\ last.op = "init_database" =>
       \A c \in Collections :
         KeySeq(data[c]) = IF last.before[c] = <<>> THEN KeySeq(SeedOf(c))
                           ELSE KeySeq(last.before[c])

\* Chess Club, first of several activities, was inserted again: it is still
\* the first, with the new document, and the activity after it is where it was
C19_Witness ==
  /\ last.op = "insert_one"
  /\ last.c = "activities"
  /\ last.ret = StrV("Chess Club")
  /\ Len(Pre) >= 2
  /\ Pre[1].k = StrV("Chess Club")
  /\ Pre[1].d # last.doc
  /\ Post[1] = [k |-> StrV("Chess Club"), d |-> last.doc]
  /\ Post[2] = Pre[2]

\* C20: a missing time excludes the document.  find with a $gte bound on
\* schedule_details.start_time returns no document without a start_time, and
\* find with a $lte bound on schedule_details.end_time returns no document
\* without an end_time, the bounds being non-empty "HH:MM" strings.
C20_MissingTimeExcluded ==
  (last.op = "find" /\ last.filter.t = "dict" /\ WellFormed(last.filter)) =>
    \A n \in 1..Len(last.filter.v) : \A i \in 1..Len(last.ret) :
      /\ last.filter.v[n].key = "schedule_details.start_time" =>
           HasDetail(last.ret[i], "start_time")
      /\ last.filter.v[n].key = "schedule_details.end_time" =>
           HasDetail(last.ret[i], "end_time")

====
